---- MODULE Spec2Model ----
(***************************************************************************)
(* Session and authentication core of smolboard (package db).              *)
(*                                                                         *)
(* The state is the relational store (tables sessions, users, tokens), the *)
(* wall clock, the session id generator, and for every request its         *)
(* position in Signin, Signup or a session-scoped Transaction.             *)
(* A request runs its statements inside one store transaction; the         *)
(* transaction works on `tx` and `db` is what has been committed.          *)
(***************************************************************************)
EXTENDS Integers, FiniteSets, Sequences, TLC

\* ---------------------------------------------------------------- bounds
MaxTime == 2           \* the clock runs 0..MaxTime
MaxID == 2             \* session ids handed out by sessionIDGen
MaxCalls == 2          \* Transaction methods one handler calls
TokenLifespan == 1     \* d.Config.tokenLifespan (initial TTL and renew TTL)
MaxRenew == 1          \* largest renewTTL a caller of QuerySession passes

Procs == {1, 2}                       \* request handlers
Users == {"u1", "u2"}
Passwords == {"p1", "p2"}
UserAgents == {"ua1"}
AuthTokens == {"t1", "t2"}            \* values randToken can return
InviteTokens == {"i1", "i2"}          \* rows of the tokens table
InviteArgs == InviteTokens \cup {"i0"}  \* "i0" is in no row
RenewTTLs == 0..MaxRenew

\* ---------------------------------------------------------------- errors
ErrNil == "nil"
ErrSessionNotFound == "session not found"
ErrSessionExpired == "session expired"
ErrInvalidPassword == "invalid password"
ErrInvalidToken == "invalid token"
ErrUsernameTaken == "username taken"
ErrBegin == "Failed to begin transaction"
ErrScanSession == "Failed to scan session"
ErrRenew == "Failed to renew token"
ErrSave == "Failed to save session"
ErrCleanup == "Faield to cleanup expired sessions"
ErrScanPassword == "Failed to scan for password"
ErrGenerate == "Failed to generate a token"
ErrDeleteToken == "Failed to delete token"
ErrDeleteID == "Failed to delete token with ID"
ErrQuerySessions == "Failed to query for sessions"
ErrScanSessions == "Failed to scan to a session"
ErrCommit == "Failed to commit"

\* ---------------------------------------------------------------- state
VARIABLES
    now,      \* time.Now().UnixNano()
    db,       \* the committed tables
    tx,       \* the tables as the open transaction sees them
    lock,     \* the request whose transaction is open, 0 when none
    nextID,   \* sessionIDGen
    pr        \* per request: operation, position, arguments, locals, result

vars == <<now, db, tx, lock, nextID, pr>>

NoSession == [id |-> 0, username |-> "", authtoken |-> "", deadline |-> 0, useragent |-> ""]

Session(id, username, authtoken, deadline, useragent) ==
    [id |-> id, username |-> username, authtoken |-> authtoken,
     deadline |-> deadline, useragent |-> useragent]

User(username, passhash, permission) ==
    [username |-> username, passhash |-> passhash, permission |-> permission]

NoTx == [sessions |-> {}, users |-> {}, tokens |-> [i \in InviteTokens |-> 0]]

Idle ==
    [op |-> "none", pc |-> "idle", user |-> "", pass |-> "", invite |-> "",
     ua |-> "", token |-> "", renewTTL |-> 0, s |-> NoSession,
     session |-> NoSession, err |-> ErrNil, calls |-> 0, out |-> {},
     last |-> "none", id |-> 0, t |-> 0]

Off == [Idle EXCEPT !.pc = "off"]

InitTables ==
    [sessions |-> {},
     users |-> {},
     tokens |-> [i \in InviteTokens |-> 1]]

\* ------------------------------------------------- statements on sessions
\* SELECT * FROM sessions WHERE authtoken = ?
SelectByToken(sessions, token) == {r \in sessions : r.authtoken = token}

\* a distinct error kind for a token that is in no row
NoRowsError_NotFound == ErrSessionNotFound

\* sql.ErrNoRows is reported as an expired session
NoRowsError == ErrSessionExpired

\* a validity check that rejects a session whose deadline is now
Expired_Inclusive(t, s) == t >= s.deadline
\* now.UnixNano() > s.Deadline
Expired(t, s) == t > s.deadline

\* the renewal counted from the previous deadline
Renewed_FromDeadline(s, t, renewTTL) == [s EXCEPT !.deadline = s.deadline + renewTTL]

\* now = now.Add(renewTTL); s.Deadline = now.UnixNano()
Renewed(s, t, renewTTL) == [s EXCEPT !.deadline = t + renewTTL]

\* an UPDATE without its WHERE clause
UpdateDeadline_All(sessions, deadline, token) ==
    {[r EXCEPT !.deadline = deadline] : r \in sessions}
\* an UPDATE matching on the username of the token's row
UpdateDeadline_ByUser(sessions, deadline, token) ==
    LET users == {r.username : r \in SelectByToken(sessions, token)}
    IN  {IF r.username \in users THEN [r EXCEPT !.deadline = deadline] ELSE r :
           r \in sessions}
\* UPDATE sessions SET deadline = ? WHERE authtoken = ?
UpdateDeadline(sessions, deadline, token) ==
    {IF r.authtoken = token THEN [r EXCEPT !.deadline = deadline] ELSE r : r \in sessions}

\* the unique columns id and authtoken of the sessions table
Collides(sessions, s) ==
    \E r \in sessions : r.id = s.id \/ r.authtoken = s.authtoken

\* the columns of sessions, in the order of the table
Columns == <<"id", "username", "authtoken", "deadline", "useragent">>

\* the row whose columns hold the values v, in the order of the table
RowOf(v) == [c \in {Columns[i] : i \in DOMAIN Columns} |->
               v[CHOOSE i \in DOMAIN Columns : Columns[i] = c]]

\* the arguments with username and useragent in each other's place
Values_Swapped(s) == <<s.id, s.useragent, s.authtoken, s.deadline, s.username>>

\* s.ID, s.Username, s.AuthToken, s.Deadline, s.UserAgent
Values(s) == <<s.id, s.username, s.authtoken, s.deadline, s.useragent>>

\* INSERT INTO sessions VALUES (?, ?, ?, ?, ?)
InsertRow(sessions, s) == sessions \cup {RowOf(Values(s))}

\* a sweep that deletes nothing
cleanupSession_Nothing(sessions, t) == sessions

\* a sweep that also deletes the rows whose deadline is now
cleanupSession_Inclusive(sessions, t) == {r \in sessions : ~(r.deadline <= t)}

\* DELETE FROM sessions WHERE deadline < ?
cleanupSession(sessions, t) == {r \in sessions : ~(r.deadline < t)}

\* a DELETE matching the rows of every other token
DeleteByToken_Others(sessions, token) == {r \in sessions : r.authtoken = token}

\* DELETE FROM sessions WHERE authtoken = ?
DeleteByToken(sessions, token) == {r \in sessions : ~(r.authtoken = token)}

\* a DELETE matching on the id alone
DeleteByID_AnyUser(sessions, id, username) == {r \in sessions : ~(r.id = id)}

\* DELETE FROM sessions WHERE id = ? AND username = ?
DeleteByID(sessions, id, username) ==
    {r \in sessions : ~(r.id = id /\ r.username = username)}

\* SELECT * FROM sessions WHERE username = ?
SelectByUsername(sessions, username) == {r \in sessions : r.username = username}

\* execChanged: did the statement affect a row
execChanged(before, after) == before # after

\* ------------------------------------------------- users and invite tokens
HashPassword(pass) == <<"hash", pass>>

VerifyPassword(passhash, pass) ==
    IF passhash = HashPassword(pass) THEN ErrNil ELSE ErrInvalidPassword

\* SELECT passhash FROM users WHERE username = ?
SelectPasshash(users, username) == {u.passhash : u \in {x \in users : x.username = username}}

NewUser(username, pass) == User(username, HashPassword(pass), "normal")

UserExists(users, username) == \E u \in users : u.username = username

\* useToken: consume one use of the invite token, if it has one left
TokenUsable(tokens, invite) == invite \in DOMAIN tokens /\ tokens[invite] > 0

useToken(tokens, invite) == [tokens EXCEPT ![invite] = @ - 1]

\* ---------------------------------------------------------------- QuerySession
\* a QuerySession that renews without having found the row
QuerySession_Blind(sessions, token, renewTTL, t, fault) ==
    LET rows == SelectByToken(sessions, token)
        row == IF rows = {} THEN Session(1, "u1", token, 0, "ua1")
                            ELSE CHOOSE r \in rows : TRUE
        s == Renewed(row, t, renewTTL)
    IN  IF fault = "select"
          THEN [err |-> ErrScanSession, s |-> NoSession, sessions |-> sessions]
        ELSE IF rows # {} /\ Expired(t, row)
          THEN [err |-> ErrSessionExpired, s |-> NoSession, sessions |-> sessions]
        ELSE IF fault = "update"
          THEN [err |-> ErrRenew, s |-> NoSession, sessions |-> sessions]
        ELSE [err |-> ErrNil, s |-> s,
              sessions |-> UpdateDeadline(sessions, s.deadline, s.authtoken) \cup {s}]
\* fault: "none", or the statement the store fails on ("select", "update")
QuerySession(sessions, token, renewTTL, t, fault) ==
    LET rows == SelectByToken(sessions, token)
        row == CHOOSE r \in rows : TRUE
        s == Renewed(row, t, renewTTL)
    IN  IF fault = "select"
          THEN [err |-> ErrScanSession, s |-> NoSession, sessions |-> sessions]
        ELSE IF rows = {}
          THEN [err |-> NoRowsError, s |-> NoSession, sessions |-> sessions]
        ELSE IF Expired(t, row)
          THEN [err |-> ErrSessionExpired, s |-> NoSession, sessions |-> sessions]
        ELSE IF fault = "update"
          THEN [err |-> ErrRenew, s |-> NoSession, sessions |-> sessions]
        ELSE [err |-> ErrNil, s |-> s,
              sessions |-> UpdateDeadline(sessions, s.deadline, s.authtoken)]

\* NewSession: the token, a fresh id, deadline = now + ttl
NewSession(id, username, userAgent, ttl, t, token) ==
    Session(id, username, token, t + ttl, userAgent)

\* ---------------------------------------------------------------- requests
IDs == 1..MaxID

Init ==
    /\ now = 0
    /\ db = InitTables
    /\ tx = NoTx
    /\ lock = 0
    /\ nextID = 1
    /\ pr = [p \in Procs |-> IF p = 1 THEN Idle ELSE Off]

Tick ==
    /\ now < MaxTime
    /\ now' = now + 1
    /\ UNCHANGED <<db, tx, lock, nextID, pr>>

\* a request arrives at the Signin endpoint
CallSignin(p) ==
    /\ pr[p].pc = "idle"
    /\ \E u \in Users, pw \in Passwords, ua \in UserAgents :
         pr' = [pr EXCEPT ![p] = [Idle EXCEPT !.op = "Signin", !.pc = "begin",
                                              !.user = u, !.pass = pw, !.ua = ua]]
    /\ UNCHANGED <<now, db, tx, lock, nextID>>

\* a request arrives at the Signup endpoint
CallSignup(p) ==
    /\ pr[p].pc = "idle"
    /\ \E u \in Users, pw \in {"p1"}, i \in InviteArgs, ua \in UserAgents :
         pr' = [pr EXCEPT ![p] = [Idle EXCEPT !.op = "Signup", !.pc = "begin",
                                              !.user = u, !.pass = pw,
                                              !.invite = i, !.ua = ua]]
    /\ UNCHANGED <<now, db, tx, lock, nextID>>

\* a request bearing a token arrives at an authenticated endpoint
CallAcquire(p) ==
    /\ pr[p].pc = "idle"
    /\ \E t \in AuthTokens, ttl \in RenewTTLs :
         pr' = [pr EXCEPT ![p] = [Idle EXCEPT !.op = "Acquire", !.pc = "begin",
                                              !.token = t, !.renewTTL = ttl]]
    /\ UNCHANGED <<now, db, tx, lock, nextID>>

FirstStep(op) ==
    CASE op = "Signin" -> "auth"
      [] op = "Signup" -> "useToken"
      [] OTHER -> "resolve"

\* the deferred t.Rollback() after an error: nothing of tx is committed
\* an error return that leaves the transaction's writes in the store
Rollback_Keep(p, r) ==
    /\ pr' = [pr EXCEPT ![p] = [r EXCEPT !.pc = "done"]]
    /\ db' = tx
    /\ tx' = NoTx
    /\ lock' = 0
    /\ UNCHANGED <<now, nextID>>

Rollback(p, r) ==
    /\ pr' = [pr EXCEPT ![p] = [r EXCEPT !.pc = "done"]]
    /\ tx' = NoTx
    /\ lock' = 0
    /\ UNCHANGED <<now, db, nextID>>

\* return nil/s, err
Fail(p, e, s) == Rollback(p, [pr[p] EXCEPT !.err = e, !.s = s])

\* d.DB.BeginTx(ctx, nil): one transaction is open at a time
BeginTx(p) ==
    /\ pr[p].pc = "begin"
    /\ \/ /\ lock = 0
          /\ lock' = p
          /\ tx' = db
          /\ pr' = [pr EXCEPT ![p].pc = FirstStep(pr[p].op)]
          /\ UNCHANGED <<now, db, nextID>>
       \/ /\ pr' = [pr EXCEPT ![p].pc = "done", ![p].err = ErrBegin]
          /\ UNCHANGED <<now, db, tx, lock, nextID>>

\* a distinct error kind for a user that does not exist
NoUserError_NotFound == "user not found"

\* a user that does not exist is reported as an invalid password
NoUserError == ErrInvalidPassword

\* Signin: look up the password hash and verify the password
SigninAuth(p) ==
    /\ pr[p].pc = "auth"
    /\ LET hashes == SelectPasshash(tx.users, pr[p].user)
       IN  \/ Fail(p, ErrScanPassword, NoSession)
           \/ /\ hashes = {}
              /\ Fail(p, NoUserError, NoSession)
           \/ /\ hashes # {}
              /\ LET e == VerifyPassword(CHOOSE h \in hashes : TRUE, pr[p].pass)
                 IN  IF e # ErrNil
                       THEN Fail(p, e, NoSession)
                       ELSE /\ pr' = [pr EXCEPT ![p].pc = "newSession"]
                            /\ UNCHANGED <<now, db, tx, lock, nextID>>

\* a Signup that goes on after useToken has failed
SignupUseToken_Ignore(p) ==
    /\ pr[p].pc = "useToken"
    /\ tx' = [tx EXCEPT !.tokens = IF TokenUsable(tx.tokens, pr[p].invite)
                                     THEN useToken(tx.tokens, pr[p].invite) ELSE @]
    /\ pr' = [pr EXCEPT ![p].pc = "newUser"]
    /\ UNCHANGED <<now, db, lock, nextID>>

\* Signup: useToken(t, token)
SignupUseToken(p) ==
    /\ pr[p].pc = "useToken"
    /\ IF TokenUsable(tx.tokens, pr[p].invite)
         THEN /\ tx' = [tx EXCEPT !.tokens = useToken(tx.tokens, pr[p].invite)]
              /\ pr' = [pr EXCEPT ![p].pc = "newUser"]
              /\ UNCHANGED <<now, db, lock, nextID>>
         ELSE Fail(p, ErrInvalidToken, NoSession)

\* a Signup that goes on after u.insert has failed
SignupInsertUser_Ignore(p) ==
    /\ pr[p].pc = "newUser"
    /\ tx' = [tx EXCEPT !.users = @ \cup {NewUser(pr[p].user, pr[p].pass)}]
    /\ pr' = [pr EXCEPT ![p].pc = "newSession"]
    /\ UNCHANGED <<now, db, lock, nextID>>

\* Signup: NewUser(user, pass, PermissionNormal) and u.insert(t)
SignupInsertUser(p) ==
    /\ pr[p].pc = "newUser"
    /\ IF UserExists(tx.users, pr[p].user)
         THEN Fail(p, ErrUsernameTaken, NoSession)
         ELSE /\ tx' = [tx EXCEPT !.users = @ \cup {NewUser(pr[p].user, pr[p].pass)}]
              /\ pr' = [pr EXCEPT ![p].pc = "newSession"]
              /\ UNCHANGED <<now, db, lock, nextID>>

\* Signin, Signup: s, err := NewSession(user, UA, d.Config.tokenLifespan)
StepNewSession(p) ==
    /\ pr[p].pc = "newSession"
    /\ \/ Fail(p, ErrGenerate, NoSession)
       \/ /\ nextID <= MaxID
          /\ \E t \in AuthTokens :
               pr' = [pr EXCEPT ![p].pc = "insert",
                                ![p].s = NewSession(nextID, pr[p].user, pr[p].ua,
                                                    TokenLifespan, now, t)]
          /\ nextID' = nextID + 1
          /\ UNCHANGED <<now, db, tx, lock>>

\* an INSERT into a table without unique columns
StepInsert_NoConstraint(p) ==
    /\ pr[p].pc = "insert"
    /\ \/ Fail(p, ErrSave, NoSession)
       \/ /\ tx' = [tx EXCEPT !.sessions = InsertRow(@, pr[p].s)]
          /\ pr' = [pr EXCEPT ![p].pc = "cleanup"]
          /\ UNCHANGED <<now, db, lock, nextID>>
\* s.insert(t): the INSERT
StepInsert(p) ==
    /\ pr[p].pc = "insert"
    /\ \/ Fail(p, ErrSave, NoSession)
       \/ /\ ~Collides(tx.sessions, pr[p].s)
          /\ tx' = [tx EXCEPT !.sessions = InsertRow(@, pr[p].s)]
          /\ pr' = [pr EXCEPT ![p].pc = "cleanup"]
          /\ UNCHANGED <<now, db, lock, nextID>>

\* an insert that goes on to the commit after its sweep has failed
StepCleanup_Swallow(p) ==
    /\ pr[p].pc = "cleanup"
    /\ \/ /\ pr' = [pr EXCEPT ![p].pc = "commit", ![p].t = now]
          /\ UNCHANGED <<now, db, tx, lock, nextID>>
       \/ /\ tx' = [tx EXCEPT !.sessions = cleanupSession(@, now)]
          /\ pr' = [pr EXCEPT ![p].pc = "commit", ![p].t = now]
          /\ UNCHANGED <<now, db, lock, nextID>>
\* s.insert(t): cleanupSession(tx, time.Now().UnixNano())
StepCleanup(p) ==
    /\ pr[p].pc = "cleanup"
    /\ \/ Fail(p, ErrCleanup, NoSession)
       \/ /\ tx' = [tx EXCEPT !.sessions = cleanupSession(@, now)]
          /\ pr' = [pr EXCEPT ![p].pc = "commit", ![p].t = now]
          /\ UNCHANGED <<now, db, lock, nextID>>

\* Signin, Signup: return s, t.Commit()
Commit(p) ==
    /\ pr[p].pc = "commit"
    /\ \/ Fail(p, ErrCommit, pr[p].s)
       \/ /\ db' = tx
          /\ tx' = NoTx
          /\ lock' = 0
          /\ pr' = [pr EXCEPT ![p].pc = "done", ![p].err = ErrNil]
          /\ UNCHANGED <<now, nextID>>

\* the token of the request is resolved before the handler runs
Resolve(p) ==
    /\ pr[p].pc = "resolve"
    /\ \E fault \in {"none", "select", "update"} :
         LET r == QuerySession(tx.sessions, pr[p].token, pr[p].renewTTL, now, fault)
         IN  IF r.err # ErrNil
               THEN Fail(p, r.err, NoSession)
               ELSE /\ tx' = [tx EXCEPT !.sessions = r.sessions]
                    /\ pr' = [pr EXCEPT ![p].pc = "handler", ![p].s = r.s,
                                         ![p].session = r.s]
                    /\ UNCHANGED <<now, db, lock, nextID>>

\* Transaction.Signout
Signout(p) ==
    /\ pr[p].pc = "handler"
    /\ pr[p].calls < MaxCalls
    /\ LET after == DeleteByToken(tx.sessions, pr[p].session.authtoken)
       IN  \/ Rollback(p, [pr[p] EXCEPT !.err = ErrDeleteToken, !.last = "Signout",
                                         !.id = 0, !.out = {}])
           \/ IF ~execChanged(tx.sessions, after)
                THEN Rollback(p, [pr[p] EXCEPT !.err = ErrSessionNotFound,
                                              !.last = "Signout", !.id = 0, !.out = {}])
                ELSE /\ tx' = [tx EXCEPT !.sessions = after]
                     /\ pr' = [pr EXCEPT ![p].calls = @ + 1, ![p].last = "Signout",
                                          ![p].id = 0, ![p].out = {}]
                     /\ UNCHANGED <<now, db, lock, nextID>>

\* Transaction.Sessions. r.Next() returns false at the end of the rows and also
\* when the store fails while stepping to the next row; r.Err() is not read,
\* so in the second case the rows scanned so far are returned with a nil error.
Sessions(p) ==
    /\ pr[p].pc = "handler"
    /\ pr[p].calls < MaxCalls
    /\ LET rows == SelectByUsername(tx.sessions, pr[p].session.username)
       IN  \/ Rollback(p, [pr[p] EXCEPT !.err = ErrQuerySessions, !.last = "Sessions",
                                         !.id = 0, !.out = {}])
           \/ /\ rows # {}
              /\ Rollback(p, [pr[p] EXCEPT !.err = ErrScanSessions, !.last = "Sessions",
                                            !.id = 0, !.out = {}])
           \/ \E scanned \in SUBSET rows :
                /\ pr' = [pr EXCEPT ![p].calls = @ + 1, ![p].last = "Sessions",
                                     ![p].id = 0, ![p].out = scanned]
                /\ UNCHANGED <<now, db, tx, lock, nextID>>

\* Transaction.DeleteSessionID
DeleteSessionID(p, id) ==
    /\ pr[p].pc = "handler"
    /\ pr[p].calls < MaxCalls
    /\ LET after == DeleteByID(tx.sessions, id, pr[p].session.username)
       IN  \/ Rollback(p, [pr[p] EXCEPT !.err = ErrDeleteID, !.id = id, !.out = {},
                                         !.last = "DeleteSessionID"])
           \/ IF ~execChanged(tx.sessions, after)
                THEN Rollback(p, [pr[p] EXCEPT !.err = ErrSessionNotFound, !.id = id,
                                              !.out = {}, !.last = "DeleteSessionID"])
                ELSE /\ tx' = [tx EXCEPT !.sessions = after]
                     /\ pr' = [pr EXCEPT ![p].calls = @ + 1, ![p].id = id,
                                          ![p].out = {}, ![p].last = "DeleteSessionID"]
                     /\ UNCHANGED <<now, db, lock, nextID>>

\* the handler returns nil and the transaction is committed
HandlerReturn(p) ==
    /\ pr[p].pc = "handler"
    /\ \/ Fail(p, ErrCommit, pr[p].s)
       \/ /\ db' = tx
          /\ tx' = NoTx
          /\ lock' = 0
          /\ pr' = [pr EXCEPT ![p].pc = "done", ![p].err = ErrNil]
          /\ UNCHANGED <<now, nextID>>

\* the response is written; the handler takes the next request
Return(p) ==
    /\ pr[p].pc = "done"
    /\ pr' = [pr EXCEPT ![p] = Idle]
    /\ UNCHANGED <<now, db, tx, lock, nextID>>

\* one step of the request p
Step(p) ==
         \/ CallSignin(p)
         \/ CallSignup(p)
         \/ CallAcquire(p)
         \/ BeginTx(p)
         \/ SigninAuth(p)
         \/ SignupUseToken(p)
         \/ SignupInsertUser(p)
         \/ StepNewSession(p)
         \/ StepInsert(p)
         \/ StepCleanup(p)
         \/ Commit(p)
         \/ Resolve(p)
         \/ Signout(p)
         \/ Sessions(p)
         \/ \E id \in IDs : DeleteSessionID(p, id)
         \/ HandlerReturn(p)

Next ==
    \/ Tick
    \/ \E p \in Procs : Step(p)
    \/ \E p \in Procs : Return(p)

\* requests handled one after the other
Spec == Init /\ [][Next]_vars

\* two requests handled in parallel on the store as created
InitC ==
    /\ now = 0
    /\ db = InitTables
    /\ tx = NoTx
    /\ lock = 0
    /\ nextID = 1
    /\ pr = [p \in Procs |-> Idle]

NextC ==
    \/ Tick
    \/ \E p \in Procs : Step(p)

SpecC == InitC /\ [][NextC]_vars

\* the session of the first Signup: u1 signed up at time 0 with invite i1
SeedSession == NewSession(1, "u1", "ua1", TokenLifespan, 0, "t1")

\* the tables after that Signup has committed
SeedTables ==
    [sessions |-> cleanupSession(InsertRow(InitTables.sessions, SeedSession), 0),
     users |-> InitTables.users \cup {NewUser("u1", "p1")},
     tokens |-> useToken(InitTables.tokens, "i1")]

\* two requests handled in parallel on the store that holds one session
InitR ==
    /\ now = 0
    /\ db = SeedTables
    /\ tx = NoTx
    /\ lock = 0
    /\ nextID = 2
    /\ pr = [p \in Procs |-> Idle]

SpecR == InitR /\ [][NextC]_vars
\* ---------------------------------------------------------------- properties
\* the request p runs QuerySession in this step
QuerySessionStep(p) == pr[p].pc = "resolve" /\ pr'[p].pc # "resolve"

\* the request p's Signin or Signup commits in this step
InsertCommitted(p) ==
    /\ pr[p].op \in {"Signin", "Signup"}
    /\ pr[p].pc = "commit"
    /\ pr'[p].pc = "done"
    /\ pr'[p].err = ErrNil

\* C1: QuerySession of a token that is in no row of sessions fails with
\* SessionExpired, the kind it returns for a row whose deadline has passed,
\* never with SessionNotFound, and the sessions table is left as it was.
C1_UnknownTokenIsExpired ==
    [][\A p \in Procs :
         (/\ QuerySessionStep(p)
          /\ SelectByToken(tx.sessions, pr[p].token) = {}
          /\ pr'[p].err # ErrScanSession)
         => /\ pr'[p].pc = "done"
            /\ pr'[p].err = ErrSessionExpired
            /\ pr'[p].err # ErrSessionNotFound
            /\ QuerySession(tx.sessions, pr[p].token, pr[p].renewTTL, now, "none").sessions
                 = tx.sessions
            /\ db'.sessions = db.sessions]_vars

C1_Witness ==
    \E p \in Procs :
        /\ pr[p].op = "Acquire"
        /\ pr[p].pc = "done"
        /\ pr[p].err = ErrSessionExpired
        /\ db.sessions # {}
        /\ SelectByToken(db.sessions, pr[p].token) = {}

C3_RenewFromNow ==
    [][\A p \in Procs :
         (QuerySessionStep(p) /\ pr'[p].err = ErrNil)
         => /\ pr'[p].pc = "handler"
            /\ pr'[p].s.deadline = now + pr[p].renewTTL
            /\ pr'[p].s.authtoken = pr[p].token
            /\ SelectByToken(tx'.sessions, pr[p].token) = {pr'[p].s}
            /\ \E r \in SelectByToken(tx.sessions, pr[p].token) : now <= r.deadline]_vars

\* a renewal whose result differs from previous deadline + renewTTL
C3_Witness ==
    \E p \in Procs :
        /\ pr[p].pc = "handler"
        /\ pr[p].calls = 0
        /\ \E r \in SelectByToken(db.sessions, pr[p].token) :
             /\ now = pr[p].s.deadline - pr[p].renewTTL
             /\ pr[p].s.deadline # r.deadline + pr[p].renewTTL
             /\ pr[p].renewTTL > 0

C5_SigninFailuresAlike ==
    [][\A p \in Procs :
         (/\ pr[p].pc = "auth"
          /\ pr'[p].pc # "auth"
          /\ pr'[p].err # ErrScanPassword
          /\ \/ ~UserExists(tx.users, pr[p].user)
             \/ \E u \in tx.users : /\ u.username = pr[p].user
                                      /\ u.passhash # HashPassword(pr[p].pass))
         => /\ pr'[p].pc = "done"
            /\ pr'[p].err = ErrInvalidPassword
            /\ pr'[p].s = NoSession
            /\ db' = db]_vars

\* both failures have been seen: here the wrong password of an existing user
C5_Witness ==
    \E p \in Procs :
        /\ pr[p].op = "Signin"
        /\ pr[p].pc = "done"
        /\ pr[p].err = ErrInvalidPassword
        /\ \E u \in db.users : /\ u.username = pr[p].user
                                 /\ u.passhash # HashPassword(pr[p].pass)

\* C6: a Signup that fails after the invite token was consumed leaves the
\* committed tables as they were (token unconsumed, no user, no session); a
\* Signup that succeeds commits the consumption, the user and the session
\* (as its sweep left the sessions table) in one step.
C6_SignupAtomic ==
    [][\A p \in Procs :
         (pr[p].op = "Signup"
          /\ pr[p].pc \in {"newUser", "newSession", "insert", "cleanup", "commit"})
         => /\ pr'[p].pc # "done" => db' = db
            /\ (pr'[p].pc = "done" /\ pr'[p].err # ErrNil) => db' = db
            /\ (pr'[p].pc = "done" /\ pr'[p].err = ErrNil)
                => /\ TokenUsable(db.tokens, pr[p].invite)
                   /\ db'.tokens = useToken(db.tokens, pr[p].invite)
                   /\ ~UserExists(db.users, pr[p].user)
                   /\ db'.users = db.users \cup {NewUser(pr[p].user, pr[p].pass)}
                   /\ db'.sessions
                        = cleanupSession(InsertRow(db.sessions, pr[p].s), pr[p].t)]_vars

\* the commit of a Signup failed: nothing of it is in the committed tables
C6_Witness ==
    \E p \in Procs :
        /\ pr[p].op = "Signup"
        /\ pr[p].pc = "done"
        /\ pr[p].err = ErrCommit
        /\ pr[p].s # NoSession
        /\ TokenUsable(db.tokens, pr[p].invite)
        /\ ~UserExists(db.users, pr[p].user)
        /\ pr[p].s \notin db.sessions

\* C7: Signup with an invite token that is unknown or has no use left fails
\* with InvalidToken and commits no user row and no session row.
C7_ConsumedInviteRejected ==
    [][\A p \in Procs :
         (/\ pr[p].pc = "useToken"
          /\ pr'[p].pc # "useToken"
          /\ ~TokenUsable(tx.tokens, pr[p].invite))
         => /\ pr'[p].pc = "done"
            /\ pr'[p].err = ErrInvalidToken
            /\ pr'[p].s = NoSession
            /\ db' = db]_vars

\* an invite token used up by an earlier Signup is presented again
C7_Witness ==
    \E p \in Procs :
        /\ pr[p].op = "Signup"
        /\ pr[p].pc = "done"
        /\ pr[p].err = ErrInvalidToken
        /\ pr[p].invite \in InviteTokens
        /\ db.tokens[pr[p].invite] = 0
        /\ ~UserExists(db.users, pr[p].user)

\* the request p calls Transaction.DeleteSessionID in this step
DeleteSessionIDStep(p) ==
    /\ pr[p].pc = "handler"
    /\ pr'[p].last = "DeleteSessionID"
    /\ \/ pr'[p].calls = pr[p].calls + 1
       \/ pr'[p].pc = "done" /\ pr'[p].err \notin {ErrNil, ErrCommit}

\* C9: DeleteSessionID with the id of another user's session, like with an id
\* in no row, fails with SessionNotFound and leaves the row; it deletes the
\* rows whose id and username both match the caller's session, and only them.
C9_DeleteOnlyOwnSession ==
    [][\A p \in Procs :
         DeleteSessionIDStep(p)
         => LET me == pr[p].session.username
                own == {r \in tx.sessions : r.id = pr'[p].id /\ r.username = me}
            IN  /\ (own = {} /\ pr'[p].err # ErrDeleteID)
                    => /\ pr'[p].pc = "done"
                       /\ pr'[p].err = ErrSessionNotFound
                       /\ db' = db
                /\ pr'[p].pc = "handler"
                    => /\ own # {}
                       /\ tx'.sessions = tx.sessions \ own
                       /\ \A r \in tx.sessions : r.username # me => r \in tx'.sessions]_vars

\* the id was that of a stored session of another user
C9_Witness ==
    \E p \in Procs :
        /\ pr[p].pc = "done"
        /\ pr[p].last = "DeleteSessionID"
        /\ pr[p].err = ErrSessionNotFound
        /\ \E r \in db.sessions : /\ r.id = pr[p].id
                                    /\ r.username # pr[p].session.username

\* the request p calls Transaction.Signout in this step
SignoutStep(p) ==
    /\ pr[p].pc = "handler"
    /\ pr'[p].last = "Signout"
    /\ \/ pr'[p].calls = pr[p].calls + 1
       \/ pr'[p].pc = "done" /\ pr'[p].err \notin {ErrNil, ErrCommit}

\* C10: Signout deletes the row whose authtoken is the current session's and no
\* other; with no such row it fails with SessionNotFound; once a transaction
\* that signed out has committed, QuerySession of the token fails with
\* SessionExpired.
C10_Signout ==
    [][\A p \in Procs :
         LET mine == SelectByToken(tx.sessions, pr[p].session.authtoken)
         IN  /\ (SignoutStep(p) /\ pr'[p].err # ErrDeleteToken)
                 => IF mine = {}
                      THEN /\ pr'[p].pc = "done"
                           /\ pr'[p].err = ErrSessionNotFound
                           /\ db' = db
                      ELSE /\ pr'[p].pc = "handler"
                           /\ Cardinality(mine) = 1
                           /\ tx'.sessions = tx.sessions \ mine
             /\ (/\ pr[p].pc = "handler" /\ pr[p].last = "Signout"
                  /\ pr'[p].pc = "done" /\ pr'[p].err = ErrNil)
                 => /\ SelectByToken(db'.sessions, pr[p].token) = {}
                    /\ \A ttl \in RenewTTLs, t \in now..MaxTime :
                         QuerySession(db'.sessions, pr[p].token, ttl, t, "none").err
                           = ErrSessionExpired]_vars

\* a second Signout in the transaction that already signed out
C10_Witness ==
    \E p \in Procs :
        /\ pr[p].pc = "done"
        /\ pr[p].last = "Signout"
        /\ pr[p].err = ErrSessionNotFound
        /\ pr[p].calls = 1
        /\ SelectByToken(db.sessions, pr[p].token) # {}

UniqueRows(sessions) ==
    \A r1, r2 \in sessions :
        (r1.authtoken = r2.authtoken \/ r1.id = r2.id) => r1 = r2

\* C11: in every state no two rows of sessions, committed or in the open
\* transaction, share an authtoken or an id; the insert of a session whose
\* authtoken or id is that of an existing row fails with "Failed to save
\* session", the rows that were there stay as they were, and the Signin or
\* Signup is rolled back: no session is returned and nothing is committed.
C11_UniqueTokenAndID ==
    /\ [](UniqueRows(db.sessions) /\ UniqueRows(tx.sessions))
    /\ [][\A p \in Procs :
            (/\ pr[p].pc = "insert"
             /\ pr'[p].pc # "insert"
             /\ Collides(tx.sessions, pr[p].s))
            => /\ pr'[p].pc = "done"
               /\ pr'[p].err = ErrSave
               /\ pr'[p].s = NoSession
               /\ db' = db
               /\ tx' = NoTx
               /\ lock' = 0]_vars

\* a new session drew the authtoken of a stored row and is about to be inserted
C11_Witness ==
    \E p \in Procs :
        /\ pr[p].pc = "insert"
        /\ Collides(tx.sessions, pr[p].s)
        /\ \E r \in db.sessions : /\ r.authtoken = pr[p].s.authtoken
                                    /\ r.id # pr[p].s.id
                                    /\ r \in tx.sessions

\* the request p commits its session-scoped transaction in this step
AcquireCommitted(p) ==
    /\ pr[p].op = "Acquire"
    /\ pr[p].pc = "handler"
    /\ pr'[p].pc = "done"
    /\ pr'[p].err = ErrNil

\* the store holds the seeded session's row as the first Signup returned it
SeedReached ==
    /\ db = SeedTables
    /\ nextID = 2
    /\ lock = 0
    /\ pr[1].pc = "done" /\ pr[1].op = "Signup" /\ pr[1].s = SeedSession

\* C12 (as stated): of two requests in parallel that resolve the same token,
\* valid by the deadline stored before either resolve, both resolves succeed
\* (the second one too, once the first has committed its renewal), and the
\* deadline stored when the later one commits is its now + renewTTL and is
\* not earlier than the deadline stored before either resolve.
C12_BothRenewalsKept ==
    [][\A p, q \in Procs :
         (/\ p # q
          /\ pr[p].op = "Acquire" /\ pr[p].pc = "done" /\ pr[p].err = ErrNil
          /\ pr[q].op = "Acquire" /\ pr[q].token = pr[p].token
          /\ pr[p].token = SeedSession.authtoken
          /\ SelectByToken(tx.sessions, pr[q].token) # {})
         => /\ (/\ QuerySessionStep(q)
                 /\ now <= SeedSession.deadline
                 /\ pr'[q].err \notin {ErrScanSession, ErrRenew})
                => pr'[q].err = ErrNil
            /\ AcquireCommitted(q)
                => \A r \in SelectByToken(db'.sessions, pr[q].token) :
                     /\ r.deadline = pr[q].s.deadline
                     /\ r.deadline >= SeedSession.deadline]_vars

\* the ids of the rows
RowIDs(sessions) == {r.id : r \in sessions}

C14_DeadlineNeverEarlier ==
    [][\A p \in Procs :
         (QuerySessionStep(p) /\ pr'[p].err = ErrNil)
         => \A r \in SelectByToken(tx.sessions, pr[p].token) :
              /\ pr'[p].s.deadline >= r.deadline
              /\ \A r2 \in SelectByToken(tx'.sessions, pr[p].token) :
                   r2.deadline >= r.deadline]_vars

\* the request p calls Transaction.Sessions in this step
SessionsStep(p) ==
    /\ pr[p].pc = "handler"
    /\ pr'[p].last = "Sessions"
    /\ \/ pr'[p].calls = pr[p].calls + 1
       \/ pr'[p].pc = "done" /\ pr'[p].err \notin {ErrNil, ErrCommit}

\* C15 (as stated): a call of Sessions that returns no error returns exactly
\* the stored sessions whose username is that of the caller's session: every
\* session returned has that username and is stored, every stored row with
\* that username is returned, and no session of another user is returned.
C15_SessionsExact ==
    [][\A p \in Procs :
         (SessionsStep(p) /\ pr'[p].pc = "handler")
         => LET me == pr[p].session.username
            IN  /\ \A r \in pr'[p].out : r.username = me /\ r \in tx.sessions
                /\ \A r \in tx.sessions : r.username = me => r \in pr'[p].out
                /\ \A r \in tx.sessions : r.username # me => r \notin pr'[p].out]_vars

\* the sessions a and b differ in the deadline at most
SameButDeadline(a, b) ==
    /\ a.id = b.id
    /\ a.username = b.username
    /\ a.authtoken = b.authtoken
    /\ a.useragent = b.useragent

\* C16: the row stored by the insert of a new session, looked up by the
\* session's token, comes back with the id, username, authtoken and useragent
\* the session was created with; a successful QuerySession returns the stored
\* row with only the deadline changed and changes only the deadline of that
\* row; and no step changes the username, authtoken or useragent of a
\* committed row.
C16_RoundTrip ==
    [][/\ \A p \in Procs :
            /\ (pr[p].pc = "insert" /\ pr'[p].pc = "cleanup")
                => /\ SelectByToken(tx'.sessions, pr[p].s.authtoken) = {pr[p].s}
                   /\ \A ttl \in RenewTTLs :
                        LET r == QuerySession(tx'.sessions, pr[p].s.authtoken,
                                              ttl, now, "none")
                        IN  r.err = ErrNil => SameButDeadline(r.s, pr[p].s)
            /\ (QuerySessionStep(p) /\ pr'[p].err = ErrNil)
                => \E r \in tx.sessions :
                     /\ r.authtoken = pr[p].token
                     /\ SameButDeadline(pr'[p].s, r)
                     /\ tx'.sessions = (tx.sessions \ {r}) \cup {pr'[p].s}
       /\ \A r \in db.sessions, r2 \in db'.sessions :
            r.id = r2.id => SameButDeadline(r, r2)]_vars

\* the second session created has been resolved and renewed: what was
\* returned differs from the row as its insert committed it in the deadline alone
C16_Witness ==
    \E p \in Procs :
        /\ pr[p].pc = "handler"
        /\ pr[p].calls = 0
        /\ \E r \in db.sessions :
             /\ r.id = 2
             /\ r.authtoken = pr[p].token
             /\ SameButDeadline(pr[p].s, r)
             /\ pr[p].s.deadline # r.deadline
             /\ pr[p].s \in tx.sessions

\* C17: when the sweep inside a session insert fails, Signin or Signup
\* returns "Faield to cleanup expired sessions" and no session, and nothing
\* of the transaction is committed: not the session row inserted just
\* before, nor, for Signup, the user row and the use of the invite token;
\* the insert goes on to the commit only with the sweep done.
C17_SweepFailureAborts ==
    [][\A p \in Procs :
         pr[p].pc = "cleanup"
         => /\ pr[p].s \in tx.sessions
            /\ pr[p].s \notin db.sessions
            /\ pr'[p].pc = "done"
                => /\ pr'[p].err = ErrCleanup
                   /\ pr'[p].s = NoSession
                   /\ db' = db
                   /\ pr[p].s \notin db'.sessions
                   /\ tx' = NoTx
                   /\ pr[p].op = "Signup"
                       => /\ ~UserExists(db'.users, pr[p].user)
                          /\ TokenUsable(db'.tokens, pr[p].invite)
            /\ pr'[p].pc \notin {"cleanup", "done"}
                => /\ pr'[p].pc = "commit"
                   /\ tx'.sessions = cleanupSession(tx.sessions, now)]_vars

\* the sweep of the first Signup failed: the store is as it was created
C17_Witness ==
    \E p \in Procs :
        /\ pr[p].op = "Signup"
        /\ pr[p].pc = "done"
        /\ pr[p].err = ErrCleanup
        /\ pr[p].s = NoSession
        /\ nextID = 2
        /\ db = InitTables

\* C18: the sweep an insert runs at time now deletes exactly the rows with
\* deadline < now, that is exactly the rows whose QuerySession at that instant
\* fails with SessionExpired; it deletes no row QuerySession would accept at
\* that instant, and a row with deadline = now is kept and is accepted.
C18_SweepAgreesWithValidity ==
    [][\A p \in Procs :
         (pr[p].pc = "cleanup" /\ pr'[p].pc = "commit")
         => /\ tx.sessions \ tx'.sessions = {r \in tx.sessions : r.deadline < now}
            /\ tx'.sessions \subseteq tx.sessions
            /\ \A r \in tx.sessions, ttl \in RenewTTLs :
                 LET q == QuerySession(tx.sessions, r.authtoken, ttl, now, "none")
                 IN  /\ q.err = ErrNil <=> r \in tx'.sessions
                     /\ q.err = ErrSessionExpired <=> r \notin tx'.sessions
                     /\ q.err = ErrNil <=> now <= r.deadline
                     /\ r.deadline = now => (r \in tx'.sessions /\ q.err = ErrNil)]_vars

\* a sweep ran at the very deadline of a row stored earlier and kept it
C18_Witness ==
    \E p \in Procs :
        /\ pr[p].pc = "commit"
        /\ pr[p].t = now
        /\ now > 0
        /\ \E r \in db.sessions :
             /\ r # pr[p].s
             /\ r.deadline = now
             /\ r \in tx.sessions
             /\ QuerySession(tx.sessions, r.authtoken, 0, now, "none").err = ErrNil

\* C19 (as stated): once a committed session has now > deadline, no step makes
\* a QuerySession of its token succeed: the token's committed row, if there is
\* one, stays expired and QuerySession of the token fails with SessionExpired.
C19_ExpiryAbsorbingCommitted ==
    [][\A r \in db.sessions :
         now > r.deadline
         => \A r2 \in SelectByToken(db'.sessions, r.authtoken) :
              /\ now' > r2.deadline
              /\ \A ttl \in RenewTTLs :
                   QuerySession(db'.sessions, r.authtoken, ttl, now', "none").err
                     = ErrSessionExpired]_vars

\* the committed row r has now > deadline and the open transaction, if there
\* is one, has not renewed it
ExpiredStored(r) ==
    /\ r \in db.sessions
    /\ now > r.deadline
    /\ \A r2 \in tx.sessions : r2.id = r.id => r2 = r

\* C19: expiry is absorbing for a session that no open transaction has
\* renewed. Once such a stored session has now > deadline, every step leaves
\* it stored as it is, and so still expired, or deletes it; no step stores
\* another row under its id; and a QuerySession of its token while it is
\* stored fails and commits nothing. The clock does not go back.
C19_ExpiryAbsorbing ==
    [][/\ now' >= now
       /\ \A r \in db.sessions :
            ExpiredStored(r)
            => /\ \A r2 \in db'.sessions \cup tx'.sessions : r2.id = r.id => r2 = r
               /\ r \in db'.sessions => ExpiredStored(r)'
               /\ \A p \in Procs :
                    (QuerySessionStep(p) /\ pr[p].token = r.authtoken)
                    => /\ r \in tx.sessions
                       /\ pr'[p].pc = "done"
                       /\ pr'[p].err \in {ErrSessionExpired, ErrScanSession}
                       /\ db' = db]_vars

\* the token of a stored session whose deadline has passed was presented and
\* refused, while another stored session is valid
C19_Witness ==
    \E p \in Procs :
        /\ pr[p].op = "Acquire"
        /\ pr[p].pc = "done"
        /\ pr[p].err = ErrSessionExpired
        /\ \E r, r2 \in db.sessions :
             /\ r.authtoken = pr[p].token
             /\ now > r.deadline
             /\ now <= r2.deadline

====
